---- MODULE Spec2Model ----
(***************************************************************************)
(* Model of course/lessons/lesson2/plot_xGModelFit.py: the geometry of a   *)
(* shot (X, C, Distance, Angle), the logistic scoring function             *)
(* calculate_xG, the statsmodels fits whose params are read back into b,   *)
(* McFadden's pseudo R-squared and the ROC sweep; and of the two 4x4 pitch  *)
(* grids of course/lessons/lesson1/plot_PlottingPasses.py.                 *)
(*                                                                         *)
(* Numbers.  The script computes in float64.  Here a float is an integer   *)
(* in hundredths ("centi": 1.05 m is 105), so a length is in centimetres,  *)
(* an angle in centiradians and a linear predictor in hundredths.  A       *)
(* probability is an integer in 1/10000 with the two saturated results of  *)
(* float64 kept exact: 0 is the float 0.0 and 10000 is the float 1.0, and  *)
(* every float strictly between them is a value in 1..9999.  Likewise the  *)
(* arctangent of a finite non-zero ratio is never rounded to 0 or to pi/2: *)
(* the sign of a float is what the script branches on.                     *)
(***************************************************************************)
EXTENDS Integers, Sequences, FiniteSets, TLC

VARIABLES
    pc,               \* position of the script (the statement to run next)
    warnfilter,       \* warnings filter installed by warnings.filterwarnings
    np_err,           \* numpy error state (np.seterr): divide / invalid
    shots,            \* the shots dataframe: a sequence of rows (column -> value)
    b,                \* coefficient list b (b[0] of the script is b[1] here)
    model_variables,  \* the list of feature names
    model,            \* the formula text built from model_variables, as tokens
    test_model,       \* result of the last smf.glm(...).fit() bound to test_model
    null_model,       \* result of the intercept-only fit
    reported,         \* what reached the user: warnings shown, output printed
    rsquared,         \* the value printed as "Mcfaddens Rsquared"
    numobs_i,         \* ROC sweep: index i of the threshold being processed
    row_j,            \* ROC sweep: number of rows already counted at threshold i
    TP, FP, TN, FN,   \* ROC counters, one cell per threshold index
    roc,              \* the plotted ROC points FP/(FP+TN), TP/(TP+FN)
    grid,             \* loop variables of the 2D map: x, y, a, sh, pgoal_2d[x,y]
    err,              \* the exception that ended the script ("none" if none)
    names,            \* lesson1: the distinct player names, df_passes.player_name.unique()
    axs,              \* lesson1: axs['pitch'], the pitches of the current figure
    ax_k,             \* lesson1: number of passes made by the running for loop
    pcm               \* lesson1: the player of the last heatmap drawn (0: pcm is unbound)

vars == <<pc, warnfilter, np_err, shots, b, model_variables, model, test_model,
          null_model, reported, rsquared, numobs_i, row_j, TP, FP, TN, FN,
          roc, grid, err, names, axs, ax_k, pcm>>

\* the variables of lesson1/plot_PlottingPasses.py
passmap == <<names, axs, ax_k, pcm>>

----------------------------------------------------------------------------
(* Bounds of the model *)

\* longest dataset the script is run on
MaxShots == 2
\* raw Wyscout x of a shot ranges over (100 - MaxK)..100 (percent of the pitch)
MaxK == 99
\* raw Wyscout y of a shot ranges over (50 - MaxM)..(50 + MaxM)
MaxM == 49
\* largest number of distinct players who made a pass
MaxNames == 17

----------------------------------------------------------------------------
(* float64 arithmetic in hundredths *)

\* np.pi in centiradians
Pi == 314

\* arctan's bound pi/2 in centiradians
HalfPi == Pi \div 2

Abs(n) == IF n < 0 THEN -n ELSE n

RECURSIVE SqrtSearch(_, _, _)
SqrtSearch(n, lo, hi) ==
    IF lo >= hi THEN lo
    ELSE LET mid == (lo + hi + 1) \div 2
         IN  IF mid * mid <= n THEN SqrtSearch(n, mid, hi)
                               ELSE SqrtSearch(n, lo, mid - 1)

\* np.sqrt of a non-negative number given in centi^2: the result in centi
Sqrt(n) == SqrtSearch(n, 0, 20000)

\* arctan(t) for 0 <= t <= 1, t given in hundredths: t / (1 + 0.28 t^2),
\* within 0.005 rad of the true value
AtanUnit(tc) == (tc * 1000000) \div (1000000 + 28 * tc * tc)

\* arctan(n / d) for n > 0 and d > 0: strictly between 0 and pi/2, as the
\* float of a finite non-zero ratio of this size is (rounding to hundredths
\* must not turn it into 0 or into pi/2)
AtanPos(n, d) ==
    LET v == IF n <= d THEN AtanUnit((100 * n) \div d)
                       ELSE HalfPi - AtanUnit((100 * d) \div n)
    IN  IF v < 1 THEN 1 ELSE IF v >= HalfPi THEN HalfPi - 1 ELSE v

\* np.arctan(n / d), in centiradians.  A zero denominator divides to +-inf
\* (numpy arrays do not raise), whose arctangent is +-pi/2.  0/0 does not
\* occur: the denominators of the script are never 0 where the numerator is.
Arctan(n, d) ==
    CASE d = 0 /\ n > 0 -> HalfPi
      [] d = 0 /\ n < 0 -> -HalfPi
      [] d # 0 /\ n = 0 -> 0
      [] d # 0 /\ n # 0 /\ (n > 0) = (d > 0) -> AtanPos(Abs(n), Abs(d))
      [] d # 0 /\ n # 0 /\ (n > 0) # (d > 0) -> -AtanPos(Abs(n), Abs(d))

----------------------------------------------------------------------------
(* Geometry of a shot: lines 74-79 *)

\* shots["X"]: (100 - x) * 105/100, in centimetres
ShotX(px) == (100 - px) * 105

\* shots["Y"]: y * 68/100
ShotY(py) == py * 68

\* shots["C"]: abs(y - 50) * 68/100
ShotC(py) == Abs(py - 50) * 68

\* shots["Distance"]: sqrt(X^2 + C^2)
ShotDistance(X, C) == Sqrt(X * X + C * C)

\* the raw arctangent: arctan(7.32 * X / (X^2 + C^2 - (7.32/2)^2))
RawAngle(X, C) == Arctan(732 * X, X * X + C * C - 366 * 366)

WhereAngleAbs(raw) == Abs(raw)

\* shots["Angle"]: np.where(raw > 0, raw, raw + np.pi)
WhereAngle(raw) == IF raw > 0 THEN raw ELSE raw + Pi

\* the grid's angle: if a < 0: a = np.pi + a
GridAngle(a) == IF a < 0 THEN Pi + a ELSE a

\* shots["Goal"]: 1 if {'id': 101} is among the tags, else 0
GoalOf(tag101) == IF tag101 THEN 1 ELSE 0

\* the columns lines 74-81 add to one row
PreparedRow(r) ==
    LET X == ShotX(r.px)
        C == ShotC(r.py)
    IN  [X |-> X, Y |-> ShotY(r.py), C |-> C,
         Distance |-> ShotDistance(X, C),
         Angle |-> WhereAngle(RawAngle(X, C)),
         Goal |-> GoalOf(r.tag101)] @@ r

----------------------------------------------------------------------------
(* The logistic link: xG = 1/(1+np.exp(bsum)), lines 231 and 387 *)

\* np.exp(z) is inf from z = 709.79 on (float64 overflow; the warning is
\* suppressed by line 44), and 1/(1+inf) is 0.0
ExpOverflow == 70979

\* 1 + np.exp(z) rounds to 1.0 up to z = -36.74 (exp(z) <= 2^-53), and 1/1.0
\* is 1.0
ExpVanish == -3674

\* e^0 .. e^9 in hundredths
ExpInt == <<100, 272, 739, 2009, 5460, 14841, 40343, 109663, 298096, 810308>>

\* e^(r/100) in hundredths for 0 <= r < 100 (Taylor, four terms)
ExpFrac(r) == 100 + r + (r * r) \div 200 + (r * r * r) \div 60000
                  + (r * r * r * r) \div 24000000

\* np.exp(z) in hundredths for 0 <= z < 10.00
Exp(z) == (ExpInt[(z \div 100) + 1] * ExpFrac(z % 100)) \div 100

\* 1/(1+np.exp(z)) for z >= 0 below the overflow: a float in (0, 1/2]
LogisticPos(z) ==
    IF z >= 1000 THEN 1
    ELSE LET p == 1000000 \div (100 + Exp(z))
         IN  IF p < 1 THEN 1 ELSE p

\* 1/(1+np.exp(z)) as the script evaluates it: the naive formula
Logistic(z) ==
    IF z >= ExpOverflow THEN 0
    ELSE IF z <= ExpVanish THEN 10000
    ELSE IF z >= 0 THEN LogisticPos(z)
    ELSE 10000 - LogisticPos(-z)

\* product of two floats given in hundredths
Mul(p, q) == (p * q) \div 100

----------------------------------------------------------------------------
(* calculate_xG, lines 383-388 *)

RECURSIVE SumLoop(_, _, _, _, _)
\* the loop "for i, v in enumerate(model_variables): bsum = bsum + b[i+1]*sh[v]"
\* from iteration i on; terms records which b index met which feature name
SumLoop(bb, mv, sh, i, acc) ==
    IF i = Len(mv) THEN [exc |-> "none", bsum |-> acc.bsum, terms |-> acc.terms]
    ELSE IF i + 1 >= Len(bb) THEN [exc |-> "IndexError", bsum |-> acc.bsum, terms |-> acc.terms]
    ELSE IF mv[i + 1] \notin DOMAIN sh THEN [exc |-> "KeyError", bsum |-> acc.bsum, terms |-> acc.terms]
    ELSE SumLoop(bb, mv, sh, i + 1,
                 [bsum  |-> acc.bsum + Mul(bb[i + 2], sh[mv[i + 1]]),
                  terms |-> Append(acc.terms, <<i + 1, mv[i + 1]>>)])

\* calculate_xG(sh) with the globals b and model_variables: bsum = b[0], the
\* loop, xG = 1/(1+np.exp(bsum)).  There is no check of len(b).
calculate_xG(bb, mv, sh) ==
    IF Len(bb) = 0 THEN [exc |-> "IndexError", xG |-> 0, bsum |-> 0, terms |-> <<>>]
    ELSE LET s == SumLoop(bb, mv, sh, 0, [bsum |-> bb[1], terms |-> <<>>])
         IN  [exc |-> s.exc, bsum |-> s.bsum, terms |-> s.terms,
              xG |-> IF s.exc = "none" THEN Logistic(s.bsum) ELSE 0]

----------------------------------------------------------------------------
(* The model formula, lines 369-373, and the fits *)

\* model_variables = ['Angle','Distance','X','C', "X2", "C2", "AX"]
ModelVariables == <<"Angle", "Distance", "X", "C", "X2", "C2", "AX">>

RECURSIVE FormulaLoop(_, _, _)
\* "for v in model_variables[:-1]: model = model + v + ' + '" from index k on
FormulaLoop(mv, k, acc) ==
    IF k > Len(mv) - 1 THEN acc
    ELSE FormulaLoop(mv, k + 1, acc \o <<mv[k], " + ">>)

BuildFormulaReversed(mv) ==
    FormulaLoop([k \in 1..Len(mv) |-> mv[Len(mv) + 1 - k]], 1, <<>>) \o <<mv[1]>>

\* model = '' ; the loop ; model = model + model_variables[-1]
BuildFormula(mv) == FormulaLoop(mv, 1, <<>>) \o <<mv[Len(mv)]>>

IsName(t) == t # " + "

\* the parameter names of smf.glm(formula="Goal ~ " + text): the intercept,
\* then the terms of the formula in the order they are written
ParamNames(text) == <<"Intercept">> \o SelectSeq(text, IsName)

\* a coefficient vector of the full model (intercept, then one coefficient
\* per name of ModelVariables), in hundredths: intercept b0, slope s at index k
Vec(b0, k, s) == [i \in 1..8 |-> IF i = 1 THEN b0 ELSE IF i = k THEN s ELSE 0]

\* the coefficient vectors a fit may return
CoefVectors ==
    { Vec(0, 2, 0), Vec(-500, 2, 0), Vec(-100, 3, 20),
      Vec(0, 6, 100), Vec(0, 6, -100) }

\* the log-likelihoods a fit may report (abstract units, never positive)
LogLikelihoods == {-1, 0}

\* a fit that has not been run
NoModel == [fitted |-> FALSE, names |-> <<>>, params |-> <<>>,
            converged |-> TRUE, llf |-> 0]

\* smf.glm(formula=..., data=shots, family=Binomial()).fit(): statsmodels
\* returns one parameter per name; which values, whether IRLS met its
\* tolerance before the iteration cap (converged) and the log-likelihood are
\* the library's
FitResults(pnames) ==
    { [fitted |-> TRUE, names |-> pnames, params |-> SubSeq(v, 1, Len(pnames)),
       converged |-> c, llf |-> l] :
      v \in CoefVectors, c \in BOOLEAN, l \in LogLikelihoods }

\* whether every label of the dataset is the same
Degenerate(rows) == \A r1, r2 \in DOMAIN rows : rows[r1].Goal = rows[r2].Goal

\* the intercept-only fit "Goal ~ 1": its log-likelihood is 0 only when no
\* label differs from the fitted constant; the script never reads its params
NullResults(rows) ==
    { [fitted |-> TRUE, names |-> <<"Intercept">>, params |-> <<0>>,
       converged |-> TRUE, llf |-> l] :
      l \in IF Degenerate(rows) THEN {0, -2} ELSE {-2} }

\* a warning raised by a library reaches the user unless the filter of line
\* 44 discards it
Warned(filter, converged) ==
    IF ~converged /\ filter # "ignore" THEN {"ConvergenceWarning"} ELSE {}

----------------------------------------------------------------------------
(* numpy division, lines 437 and 460 *)

NaN == [k |-> "nan"]
Inf(sign) == [k |-> "inf", s |-> sign]
Num(n, d) == [k |-> "num", n |-> n, d |-> d]
Raised(e) == [k |-> "raise", e |-> e]

\* n / d on numpy floats under the error state st: 0/0 is invalid, x/0 is a
\* division by zero; numpy raises FloatingPointError only in mode 'raise'
Divide(n, d, st) ==
    CASE d # 0 -> Num(n, d)
      [] d = 0 /\ n = 0 ->
            IF st.invalid = "raise" THEN Raised("FloatingPointError") ELSE NaN
      [] d = 0 /\ n # 0 ->
            IF st.divide = "raise" THEN Raised("FloatingPointError")
            ELSE Inf(IF n > 0 THEN 1 ELSE -1)

\* 1 - q
OneMinus(q) ==
    CASE q.k = "num" -> Num(q.d - q.n, q.d)
      [] q.k = "inf" -> Inf(-q.s)
      [] OTHER -> q

SetErrRaise == [divide |-> "raise", invalid |-> "raise"]

\* np.seterr(divide='ignore', invalid='ignore')
SetErr == [divide |-> "ignore", invalid |-> "ignore"]

\* 1 - test_model.llf / null_model.llf
McFadden(llf, llnull, st) == OneMinus(Divide(llf, llnull, st))

----------------------------------------------------------------------------
(* The ROC sweep, lines 440-460 *)

\* numobs = 100
numobs == 100

ThresholdShifted(i) == ((i + 1) * 10000) \div numobs
ThresholdDescending(i) == ((numobs - 1 - i) * 10000) \div numobs

\* np.arange(0, 1, 1 / numobs)[i], in 1/10000
Threshold(i) == (i * 10000) \div numobs

\* np.zeros(numobs)
Zeros == [i \in 0..(numobs - 1) |-> 0]

Bump(A, i) == [A EXCEPT ![i] = @ + 1]

CountShotAtLeast(c, i, shot) ==
    LET t == Threshold(i)
    IN  [TP |-> IF shot.Goal = 1 /\ shot.xG >= t THEN Bump(c.TP, i) ELSE c.TP,
         FN |-> IF shot.Goal = 1 /\ ~(shot.xG >= t) THEN Bump(c.FN, i) ELSE c.FN,
         FP |-> IF shot.Goal = 0 /\ shot.xG >= t THEN Bump(c.FP, i) ELSE c.FP,
         TN |-> IF shot.Goal = 0 /\ ~(shot.xG >= t) THEN Bump(c.TN, i) ELSE c.TN]

\* the body of the inner loop for one shot at threshold index i: lines 448-457
CountShot(c, i, shot) ==
    LET t == Threshold(i)
    IN  [TP |-> IF shot.Goal = 1 /\ shot.xG > t THEN Bump(c.TP, i) ELSE c.TP,
         FN |-> IF shot.Goal = 1 /\ ~(shot.xG > t) THEN Bump(c.FN, i) ELSE c.FN,
         FP |-> IF shot.Goal = 0 /\ shot.xG > t THEN Bump(c.FP, i) ELSE c.FP,
         TN |-> IF shot.Goal = 0 /\ ~(shot.xG > t) THEN Bump(c.TN, i) ELSE c.TN]

\* the plotted points: FP / (FP + TN) against TP / (TP + FN), element by element
RocPoints(c, st) ==
    [i \in 0..(numobs - 1) |->
        [fpr |-> Divide(c.FP[i], c.FP[i] + c.TN[i], st),
         tpr |-> Divide(c.TP[i], c.TP[i] + c.FN[i], st)]]

----------------------------------------------------------------------------
(* The 2D map of xG, lines 395-411 *)

\* range(68)
GridSize == 68

\* one pass of the loop body for the cell (x, y)
GridCell(x, y, bb, mv) ==
    LET X  == 100 * x
        C  == 100 * Abs(y - 34)
        a  == GridAngle(Arctan(732 * X, X * X + C * C - 366 * 366))
        sh == [Angle |-> a, Distance |-> Sqrt(X * X + C * C),
               D2 |-> Mul(X, X) + Mul(C, C), X |-> X, AX |-> Mul(X, a),
               X2 |-> Mul(X, X), C |-> C, C2 |-> Mul(C, C)]
        r  == calculate_xG(bb, mv, sh)
    IN  [k |-> "cell", x |-> x, y |-> y, a |-> a, sh |-> sh,
         exc |-> r.exc, p |-> r.xG]

NoGrid == [k |-> "none"]

----------------------------------------------------------------------------
(* The inputs *)

\* the raw shot cells of the datasets: (x, y) in percent of the pitch
ShotCells == {<<95, 50>>, <<70, 30>>}

\* a Shot event as loaded: its position and whether tag 101 (goal) is present
RawRows == {[px |-> c[1], py |-> c[2], tag101 |-> t] : c \in ShotCells, t \in BOOLEAN}

Datasets == UNION {[1..n -> RawRows] : n \in 1..MaxShots}

\* the columns of lines 335 and 364-366
WithD2(r) == [D2 |-> Mul(r.Distance, r.Distance)] @@ r
WithExtra(r) == [X2 |-> Mul(r.X, r.X), C2 |-> Mul(r.C, r.C), AX |-> Mul(r.Angle, r.X)] @@ r

\* row r with its column xG set to p (shots.assign(xG = ...))
AssignXGKeep(r, p) ==
    [c \in (DOMAIN r) \cup {"xG"} |-> IF c = "xG" /\ c \notin DOMAIN r THEN p ELSE r[c]]

AssignXG(r, p) == [c \in (DOMAIN r) \cup {"xG"} |-> IF c = "xG" THEN p ELSE r[c]]

----------------------------------------------------------------------------
(* The script, statement by statement *)

Init ==
    /\ pc = "filterwarnings"
    /\ warnfilter = "default"
    /\ np_err = [divide |-> "warn", invalid |-> "warn"]
    /\ shots \in Datasets
    /\ b = <<>>
    /\ model_variables = <<>>
    /\ model = <<>>
    /\ test_model = NoModel
    /\ null_model = NoModel
    /\ reported = {}
    /\ rsquared = [k |-> "none"]
    /\ numobs_i = 0
    /\ row_j = 0
    /\ TP = <<>> /\ FP = <<>> /\ TN = <<>> /\ FN = <<>>
    /\ roc = <<>>
    /\ grid = NoGrid
    /\ err = "none"
    /\ names = <<>> /\ axs = <<>> /\ ax_k = 0 /\ pcm = 0

\* lines 43-44
FilterWarnings ==
    /\ pc = "filterwarnings"
    /\ warnfilter' = "ignore"
    /\ pc' = "prepare"
    /\ UNCHANGED <<passmap, np_err, shots, b, model_variables, model, test_model, null_model,
                   reported, rsquared, numobs_i, row_j, TP, FP, TN, FN, roc, grid, err>>

\* lines 72-81
PrepareData ==
    /\ pc = "prepare"
    /\ shots' = [r \in DOMAIN shots |-> PreparedRow(shots[r])]
    /\ pc' = "b151"
    /\ UNCHANGED <<passmap, warnfilter, np_err, b, model_variables, model, test_model, null_model,
                   reported, rsquared, numobs_i, row_j, TP, FP, TN, FN, roc, grid, err>>

\* line 151: b = [3, -3]
SetB151 ==
    /\ pc = "b151"
    /\ b' = <<300, -300>>
    /\ pc' = "seterr"
    /\ UNCHANGED <<passmap, warnfilter, np_err, shots, model_variables, model, test_model, null_model,
                   reported, rsquared, numobs_i, row_j, TP, FP, TN, FN, roc, grid, err>>

\* line 195
SetErr195 ==
    /\ pc = "seterr"
    /\ np_err' = SetErr
    /\ pc' = "b216"
    /\ UNCHANGED <<passmap, warnfilter, shots, b, model_variables, model, test_model, null_model,
                   reported, rsquared, numobs_i, row_j, TP, FP, TN, FN, roc, grid, err>>

\* line 216: b = [3, -3]
SetB216 ==
    /\ pc = "b216"
    /\ b' = <<300, -300>>
    /\ pc' = "xg231"
    /\ UNCHANGED <<passmap, warnfilter, np_err, shots, model_variables, model, test_model, null_model,
                   reported, rsquared, numobs_i, row_j, TP, FP, TN, FN, roc, grid, err>>

\* lines 231-232: xG = 1/(1+np.exp(b[0]+b[1]*shots['Angle'])); shots.assign(xG = xG)
HandXG ==
    /\ pc = "xg231"
    /\ shots' = [r \in DOMAIN shots |->
                   AssignXG(shots[r], Logistic(b[1] + Mul(b[2], shots[r].Angle)))]
    /\ pc' = "fit_angle"
    /\ UNCHANGED <<passmap, warnfilter, np_err, b, model_variables, model, test_model, null_model,
                   reported, rsquared, numobs_i, row_j, TP, FP, TN, FN, roc, grid, err>>

\* test_model = smf.glm(formula, ...).fit(); print(test_model.summary());
\* b = test_model.params
FitAndRead(pnames) ==
    /\ test_model' \in FitResults(pnames)
    /\ reported' = reported \cup Warned(warnfilter, test_model'.converged) \cup {"summary"}
    /\ b' = test_model'.params

\* lines 269-273: "Goal ~ Angle"
FitAngle ==
    /\ pc = "fit_angle"
    /\ FitAndRead(ParamNames(<<"Angle">>))
    /\ pc' = "fit_distance"
    /\ UNCHANGED <<passmap, warnfilter, np_err, shots, model_variables, model, null_model,
                   rsquared, numobs_i, row_j, TP, FP, TN, FN, roc, grid, err>>

\* lines 314-318: "Goal ~ Distance"
FitDistance ==
    /\ pc = "fit_distance"
    /\ FitAndRead(ParamNames(<<"Distance">>))
    /\ pc' = "d2"
    /\ UNCHANGED <<passmap, warnfilter, np_err, shots, model_variables, model, null_model,
                   rsquared, numobs_i, row_j, TP, FP, TN, FN, roc, grid, err>>

\* line 335: shots["D2"] = shots['Distance']**2
AddD2 ==
    /\ pc = "d2"
    /\ shots' = [r \in DOMAIN shots |-> WithD2(shots[r])]
    /\ pc' = "fit_d2"
    /\ UNCHANGED <<passmap, warnfilter, np_err, b, model_variables, model, test_model, null_model,
                   reported, rsquared, numobs_i, row_j, TP, FP, TN, FN, roc, grid, err>>

\* lines 337-342: "Goal ~ Distance + D2"
FitD2 ==
    /\ pc = "fit_d2"
    /\ FitAndRead(ParamNames(<<"Distance", " + ", "D2">>))
    /\ pc' = "extra"
    /\ UNCHANGED <<passmap, warnfilter, np_err, shots, model_variables, model, null_model,
                   rsquared, numobs_i, row_j, TP, FP, TN, FN, roc, grid, err>>

\* lines 364-366
ExtraVariables ==
    /\ pc = "extra"
    /\ shots' = [r \in DOMAIN shots |-> WithExtra(shots[r])]
    /\ pc' = "formula"
    /\ UNCHANGED <<passmap, warnfilter, np_err, b, model_variables, model, test_model, null_model,
                   reported, rsquared, numobs_i, row_j, TP, FP, TN, FN, roc, grid, err>>

\* lines 369-373
Formula ==
    /\ pc = "formula"
    /\ model_variables' = ModelVariables
    /\ model' = BuildFormula(ModelVariables)
    /\ pc' = "fit_full"
    /\ UNCHANGED <<passmap, warnfilter, np_err, shots, b, test_model, null_model,
                   reported, rsquared, numobs_i, row_j, TP, FP, TN, FN, roc, grid, err>>

\* lines 376-380: "Goal ~ " + model
FitFull ==
    /\ pc = "fit_full"
    /\ FitAndRead(ParamNames(model))
    /\ pc' = "apply_xG"
    /\ UNCHANGED <<passmap, warnfilter, np_err, shots, model_variables, model, null_model,
                   rsquared, numobs_i, row_j, TP, FP, TN, FN, roc, grid, err>>

\* the exception calculate_xG raises on some row, or "none"
ApplyExc(rows, bb, mv) ==
    IF \E r \in DOMAIN rows : calculate_xG(bb, mv, rows[r]).exc # "none"
    THEN calculate_xG(bb, mv, rows[CHOOSE r \in DOMAIN rows :
                                     /\ calculate_xG(bb, mv, rows[r]).exc # "none"
                                     /\ \A q \in 1..(r - 1) :
                                           calculate_xG(bb, mv, rows[q]).exc = "none"]).exc
    ELSE "none"

\* lines 391-392: xG = shots.apply(calculate_xG, axis=1); shots = shots.assign(xG=xG)
ApplyXG ==
    /\ pc = "apply_xG"
    /\ LET e == ApplyExc(shots, b, model_variables)
       IN  IF e # "none"
           THEN /\ err' = e
                /\ pc' = "raised"
                /\ UNCHANGED shots
           ELSE /\ shots' = [r \in DOMAIN shots |->
                               AssignXG(shots[r], calculate_xG(b, model_variables, shots[r]).xG)]
                /\ pc' = "grid"
                /\ UNCHANGED err
    /\ UNCHANGED <<passmap, warnfilter, np_err, b, model_variables, model, test_model, null_model,
                   reported, rsquared, numobs_i, row_j, TP, FP, TN, FN, roc, grid>>

\* lines 395-411, the whole double loop: every cell is computed from x, y and
\* the globals alone, so the loop leaves the variables of its last pass
Grid2D ==
    /\ pc = "grid"
    /\ LET g == GridCell(GridSize - 1, GridSize - 1, b, model_variables)
       IN  IF g.exc # "none"
           THEN /\ err' = g.exc
                /\ pc' = "raised"
                /\ UNCHANGED grid
           ELSE /\ grid' = g
                /\ pc' = "rsquared"
                /\ UNCHANGED err
    /\ UNCHANGED <<passmap, warnfilter, np_err, shots, b, model_variables, model, test_model, null_model,
                   reported, rsquared, numobs_i, row_j, TP, FP, TN, FN, roc>>

\* lines 435-437: the null model and print("Mcfaddens Rsquared", 1 - llf / llnull)
PseudoR2 ==
    /\ pc = "rsquared"
    /\ null_model' \in NullResults(shots)
    /\ LET q == McFadden(test_model.llf, null_model'.llf, np_err)
       IN  IF q.k = "raise"
           THEN /\ err' = q.e
                /\ pc' = "raised"
                /\ UNCHANGED <<rsquared, reported>>
           ELSE /\ rsquared' = q
                /\ reported' = reported \cup {"Mcfaddens Rsquared"}
                /\ pc' = "roc_init"
                /\ UNCHANGED err
    /\ UNCHANGED <<passmap, warnfilter, np_err, shots, b, model_variables, model, test_model,
                   numobs_i, row_j, TP, FP, TN, FN, roc, grid>>

\* lines 440-444
RocInit ==
    /\ pc = "roc_init"
    /\ TP' = Zeros /\ FP' = Zeros /\ TN' = Zeros /\ FN' = Zeros
    /\ numobs_i' = 0
    /\ row_j' = 0
    /\ pc' = "roc_loop"
    /\ UNCHANGED <<passmap, warnfilter, np_err, shots, b, model_variables, model, test_model, null_model,
                   reported, rsquared, roc, grid, err>>

\* lines 446-457: one pass of the inner loop, for shot row_j at threshold numobs_i
RocCount ==
    /\ pc = "roc_loop"
    /\ numobs_i < numobs
    /\ LET c == CountShot([TP |-> TP, FP |-> FP, TN |-> TN, FN |-> FN],
                          numobs_i, shots[row_j + 1])
       IN  /\ TP' = c.TP /\ FP' = c.FP /\ TN' = c.TN /\ FN' = c.FN
    /\ IF row_j + 1 < Len(shots)
       THEN /\ row_j' = row_j + 1
            /\ UNCHANGED numobs_i
       ELSE /\ row_j' = 0
            /\ numobs_i' = numobs_i + 1
    /\ UNCHANGED <<passmap, pc, warnfilter, np_err, shots, b, model_variables, model, test_model,
                   null_model, reported, rsquared, roc, grid, err>>

\* line 460: ax.plot(FP / (FP + TN), TP / (TP + FN))
RocPlot ==
    /\ pc = "roc_loop"
    /\ numobs_i = numobs
    /\ LET pts == RocPoints([TP |-> TP, FP |-> FP, TN |-> TN, FN |-> FN], np_err)
       IN  IF \E i \in DOMAIN pts : pts[i].fpr.k = "raise" \/ pts[i].tpr.k = "raise"
           THEN /\ err' = "FloatingPointError"
                /\ pc' = "raised"
                /\ UNCHANGED roc
           ELSE /\ roc' = pts
                /\ pc' = "done"
                /\ UNCHANGED err
    /\ UNCHANGED <<passmap, warnfilter, np_err, shots, b, model_variables, model, test_model, null_model,
                   reported, rsquared, numobs_i, row_j, TP, FP, TN, FN, grid>>

Next ==
    \/ FilterWarnings \/ PrepareData \/ SetB151 \/ SetErr195 \/ SetB216 \/ HandXG
    \/ FitAngle \/ FitDistance \/ AddD2 \/ FitD2 \/ ExtraVariables \/ Formula
    \/ FitFull \/ ApplyXG \/ Grid2D \/ PseudoR2 \/ RocInit \/ RocCount \/ RocPlot

Spec == Init /\ [][Next]_vars

----------------------------------------------------------------------------
(* The kernel functions on their whole input domain: the geometry of        *)
(* lines 74-79 on every raw position, the grid cell by cell, and            *)
(* calculate_xG on coefficient lists of any length.                         *)

\* every raw position of a shot
AllRawRows ==
    {[px |-> x, py |-> y, tag101 |-> t] :
        x \in (100 - MaxK)..100, y \in (50 - MaxM)..(50 + MaxM), t \in {FALSE}}

\* a row with every feature column, before any xG is assigned
FeatureRows == {WithExtra(WithD2(PreparedRow(r))) : r \in RawRows}

\* coefficient lists handed to calculate_xG: the fitted vectors, the same cut
\* short, and the same with one more entry
ScoreCoefs ==
    CoefVectors \cup {SubSeq(v, 1, n) : v \in CoefVectors, n \in 0..7}
                \cup {v \o <<100>> : v \in CoefVectors}

InitCommon ==
    /\ warnfilter = "ignore"
    /\ np_err = [divide |-> "warn", invalid |-> "warn"]
    /\ test_model = NoModel
    /\ null_model = NoModel
    /\ reported = {}
    /\ rsquared = [k |-> "none"]
    /\ numobs_i = 0
    /\ row_j = 0
    /\ TP = <<>> /\ FP = <<>> /\ TN = <<>> /\ FN = <<>>
    /\ roc = <<>>
    /\ grid = NoGrid
    /\ err = "none"
    /\ names = <<>> /\ axs = <<>> /\ ax_k = 0 /\ pcm = 0

\* before line 72, on one shot at any raw position
InitColumn ==
    /\ pc = "prepare"
    /\ shots \in {<<r>> : r \in AllRawRows}
    /\ b = <<>>
    /\ model_variables = <<>>
    /\ model = <<>>
    /\ InitCommon

\* before line 395, with any fitted coefficients
InitGrid ==
    /\ pc = "grid_loop"
    /\ shots = <<>>
    /\ b \in CoefVectors
    /\ model_variables = ModelVariables
    /\ model = BuildFormula(ModelVariables)
    /\ InitCommon

\* before line 391, with a coefficient list of any length
InitScore ==
    /\ pc = "apply_xG"
    /\ shots \in {<<r>> : r \in FeatureRows}
    /\ b \in ScoreCoefs
    /\ model_variables = ModelVariables
    /\ model = BuildFormula(ModelVariables)
    /\ InitCommon

InitKernel == InitColumn \/ InitGrid \/ InitScore

\* lines 396-411: one pass of the double loop
GridStep ==
    /\ pc = "grid_loop"
    /\ LET x == IF grid.k = "none" THEN 0
                ELSE IF grid.y + 1 < GridSize THEN grid.x ELSE grid.x + 1
           y == IF grid.k = "none" THEN 0
                ELSE IF grid.y + 1 < GridSize THEN grid.y + 1 ELSE 0
           g == GridCell(x, y, b, model_variables)
       IN  /\ x < GridSize
           /\ IF g.exc # "none"
              THEN /\ err' = g.exc
                   /\ pc' = "raised"
                   /\ UNCHANGED grid
              ELSE /\ grid' = g
                   /\ UNCHANGED <<pc, err>>
    /\ UNCHANGED <<passmap, warnfilter, np_err, shots, b, model_variables, model, test_model, null_model,
                   reported, rsquared, numobs_i, row_j, TP, FP, TN, FN, roc>>

NextKernel == PrepareData \/ GridStep \/ ApplyXG

SpecKernel == InitKernel /\ [][NextKernel]_vars

----------------------------------------------------------------------------
(* lesson1/plot_PlottingPasses.py: the two figures of 4x4 pitches.  A player *)
(* name is a number 1..n; the pitches are indexed as axs['pitch'].flat,      *)
(* 0..15 in row-major order.                                                 *)

\* pitch.grid(ncols = 4, nrows = 4, ...)
NRows == 4
NCols == 4

\* the variables of lesson2/plot_xGModelFit.py, which this script never touches
xgmodel == <<warnfilter, np_err, shots, b, model_variables, model, test_model,
             null_model, reported, rsquared, numobs_i, row_j, TP, FP, TN, FN,
             roc, grid>>

\* a pitch as pitch.grid draws it: no text, nothing plotted, still in the figure
BlankPitch == [text |-> 0, plotted |-> FALSE, heat |-> FALSE, removed |-> FALSE]

\* axs['pitch'] of a new figure
PitchGrid == [k \in 0..(NRows * NCols - 1) |-> BlankPitch]

\* len(flat[:n]): a slice stops at the end of the array
FlatLen(n) == IF n < NRows * NCols THEN n ELSE NRows * NCols

\* first index of the slice [start:] of an axis of length len (Python: a
\* negative start counts from the end, and the result is clipped to 0..len)
SliceStart(start, len) ==
    IF start < 0 THEN (IF start + len < 0 THEN 0 ELSE start + len)
    ELSE IF start > len THEN len ELSE start

\* axs['pitch'][-1, 16 - len(names):] as flat indices: the pitches of the last
\* row from column 16 - len(names) on
LastRowSlice(n) ==
    LET s == SliceStart(16 - n, NCols)
    IN  [i \in 1..(NCols - s) |-> (NRows - 1) * NCols + s + i - 1]

\* the scatter and the arrows of one player on pitch k, under the player's name
PlotOn(A, k, name) == [A EXCEPT ![k] = [@ EXCEPT !.text = name, !.plotted = TRUE]]

\* the same over the player's heatmap
HeatOn(A, k, name) == [PlotOn(A, k, name) EXCEPT ![k].heat = TRUE]

\* ax.remove()
Remove(A, k) == [A EXCEPT ![k].removed = TRUE]

InitPasses ==
    /\ pc = "names87"
    /\ shots = <<>>
    /\ b = <<>>
    /\ model_variables = <<>>
    /\ model = <<>>
    /\ InitCommon

\* line 87: names = df_passes['player_name'].unique()
Names87 ==
    /\ pc = "names87"
    /\ \E n \in 0..MaxNames : names' = [i \in 1..n |-> i]
    /\ pc' = "grid91"
    /\ UNCHANGED <<xgmodel, axs, ax_k, pcm, err>>

\* lines 90-92
DrawGrid91 ==
    /\ pc = "grid91"
    /\ axs' = PitchGrid
    /\ ax_k' = 0
    /\ pc' = "plot95"
    /\ UNCHANGED <<xgmodel, names, pcm, err>>

\* lines 95-105: for name, ax in zip(names, axs['pitch'].flat[:len(names)])
PlotPasses ==
    /\ pc = "plot95"
    /\ IF ax_k < FlatLen(Len(names))
       THEN /\ axs' = PlotOn(axs, ax_k, names[ax_k + 1])
            /\ ax_k' = ax_k + 1
            /\ UNCHANGED pc
       ELSE /\ ax_k' = 0
            /\ pc' = "remove108"
            /\ UNCHANGED axs
    /\ UNCHANGED <<xgmodel, names, pcm, err>>

\* lines 108-109: for ax in axs['pitch'][-1, 16 - len(names):]: ax.remove()
RemovePasses ==
    /\ pc = "remove108"
    /\ LET sl == LastRowSlice(Len(names))
       IN  IF ax_k < Len(sl)
           THEN /\ axs' = Remove(axs, sl[ax_k + 1])
                /\ ax_k' = ax_k + 1
                /\ UNCHANGED pc
           ELSE /\ ax_k' = 0
                /\ pc' = "title112"
                /\ UNCHANGED axs
    /\ UNCHANGED <<xgmodel, names, pcm, err>>

\* lines 112-113
Title112 ==
    /\ pc = "title112"
    /\ pc' = "names145"
    /\ UNCHANGED <<xgmodel, passmap, err>>

\* lines 142-145: the same mask on the same df gives the same names
Names145 ==
    /\ pc = "names145"
    /\ names' = names
    /\ pc' = "grid149"
    /\ UNCHANGED <<xgmodel, axs, ax_k, pcm, err>>

\* lines 148-150
DrawGrid149 ==
    /\ pc = "grid149"
    /\ axs' = PitchGrid
    /\ ax_k' = 0
    /\ pc' = "plot153"
    /\ UNCHANGED <<xgmodel, names, pcm, err>>

\* lines 153-166
PlotHeat ==
    /\ pc = "plot153"
    /\ IF ax_k < FlatLen(Len(names))
       THEN /\ axs' = HeatOn(axs, ax_k, names[ax_k + 1])
            /\ pcm' = names[ax_k + 1]
            /\ ax_k' = ax_k + 1
            /\ UNCHANGED pc
       ELSE /\ ax_k' = 0
            /\ pc' = "remove169"
            /\ UNCHANGED <<axs, pcm>>
    /\ UNCHANGED <<xgmodel, names, err>>

\* lines 169-170
RemoveHeat ==
    /\ pc = "remove169"
    /\ LET sl == LastRowSlice(Len(names))
       IN  IF ax_k < Len(sl)
           THEN /\ axs' = Remove(axs, sl[ax_k + 1])
                /\ ax_k' = ax_k + 1
                /\ UNCHANGED pc
           ELSE /\ ax_k' = 0
                /\ pc' = "colorbar173"
                /\ UNCHANGED axs
    /\ UNCHANGED <<xgmodel, names, pcm, err>>

\* lines 173-179: plt.colorbar(pcm, ...) reads pcm, bound only by the loop body
Colorbar ==
    /\ pc = "colorbar173"
    /\ IF pcm = 0
       THEN /\ err' = "NameError"
            /\ pc' = "raised"
       ELSE /\ pc' = "done"
            /\ UNCHANGED err
    /\ UNCHANGED <<xgmodel, passmap>>

NextPasses ==
    \/ Names87 \/ DrawGrid91 \/ PlotPasses \/ RemovePasses \/ Title112
    \/ Names145 \/ DrawGrid149 \/ PlotHeat \/ RemoveHeat \/ Colorbar

SpecPasses == InitPasses /\ [][NextPasses]_vars

----------------------------------------------------------------------------
(* Shot angle *)

\* the raw arctangent of the row's position
RowRaw(r) == RawAngle(r.X, r.C)

\* C1: wherever the angle is computed (the Angle column and the grid), pi is
\* added only to a negative raw arctangent; a raw arctangent of 0 (X = 0) is
\* left alone and the angle is 0.
C1_PiOnlyWhenNegative ==
    /\ \A r \in DOMAIN shots :
          "Angle" \in DOMAIN shots[r] =>
             /\ shots[r].Angle = IF RowRaw(shots[r]) < 0 THEN RowRaw(shots[r]) + Pi
                                                         ELSE RowRaw(shots[r])
             /\ (shots[r].X = 0 => shots[r].Angle = 0)
    /\ grid.k = "cell" =>
          /\ grid.a = IF RowRaw(grid.sh) < 0 THEN RowRaw(grid.sh) + Pi ELSE RowRaw(grid.sh)
          /\ (grid.sh.X = 0 => grid.a = 0)

\* the angle v of a position with raw arctangent raw is strictly inside
\* (0, pi): a positive raw value is kept, a negative one is shifted by pi
InOpenInterval(raw, v) ==
    /\ 0 < v /\ v < Pi
    /\ raw # 0
    /\ (raw > 0 => v = raw /\ v <= HalfPi)
    /\ (raw < 0 => v = raw + Pi /\ v > HalfPi)

\* C2: for every position with X > 0 (and any C >= 0) the angle lies strictly
\* between 0 and pi, in the Angle column and in the grid: a positive raw
\* arctangent is kept (at most pi/2), a negative one is shifted by pi (above
\* pi/2), and no such input yields 0 or pi.
C2_AngleStrictlyInside ==
    /\ \A r \in DOMAIN shots :
          ("Angle" \in DOMAIN shots[r] /\ shots[r].X > 0) =>
             InOpenInterval(RowRaw(shots[r]), shots[r].Angle)
    /\ (grid.k = "cell" /\ grid.sh.X > 0) =>
          InOpenInterval(RowRaw(grid.sh), grid.a)

\* a shot with X > 0 inside the circle through the posts (negative raw
\* arctangent) whose Angle column has been computed: the shifted branch
C2_Witness ==
    /\ pc = "b151"
    /\ \E r \in DOMAIN shots :
          /\ "Angle" \in DOMAIN shots[r]
          /\ shots[r].X > 0
          /\ RowRaw(shots[r]) < 0
          /\ shots[r].Angle > HalfPi

----------------------------------------------------------------------------
(* ROC sweep *)

\* number of the first n rows with label g whose xG is (pos) or is not (~pos)
\* above the threshold of index i
Count(n, g, i, pos) ==
    Cardinality({r \in 1..n : /\ shots[r].Goal = g
                              /\ (shots[r].xG > Threshold(i)) = pos})

Goals == Cardinality({r \in DOMAIN shots : shots[r].Goal = 1})
NonGoals == Cardinality({r \in DOMAIN shots : shots[r].Goal = 0})

\* number of rows counted so far at threshold index i
Seen(i) == IF i < numobs_i THEN Len(shots) ELSE IF i = numobs_i THEN row_j ELSE 0

\* the counters of threshold index i hold the shots seen so far, each in the
\* one cell its label and the comparison xG > threshold select
CountedOnce(i) ==
    /\ Threshold(i) * numobs = i * 10000
    /\ Threshold(i) < 10000
    /\ TP[i] = Count(Seen(i), 1, i, TRUE)
    /\ FN[i] = Count(Seen(i), 1, i, FALSE)
    /\ FP[i] = Count(Seen(i), 0, i, TRUE)
    /\ TN[i] = Count(Seen(i), 0, i, FALSE)
    /\ TP[i] + FN[i] + FP[i] + TN[i] = Seen(i)
    /\ (i < numobs_i => TP[i] + FN[i] = Goals /\ FP[i] + TN[i] = NonGoals)

\* C3: the sweep visits the numobs thresholds i/numobs, i = 0..numobs-1, all
\* in [0,1), and at each of them every shot is counted in exactly one of TP,
\* FN, FP, TN, by its label and by xG > threshold; so once a threshold is
\* done TP+FN is the number of goals and FP+TN the number of non-goals.
\* (During the sweep the thresholds next to the running one are examined,
\* the others being left as they were; after it, all of them.)
C3_EachShotCountedOnce ==
    /\ pc = "roc_loop" =>
          /\ numobs_i \in 0..numobs
          /\ \A i \in {numobs_i - 1, numobs_i, numobs_i + 1} \cap (0..(numobs - 1)) :
                CountedOnce(i)
    /\ pc = "done" =>
          /\ numobs_i = numobs
          /\ \A i \in 0..(numobs - 1) : CountedOnce(i)

\* the sweep is over and, at one threshold, one goal was classified positive
\* and another negative
C3_Witness ==
    /\ pc = "done"
    /\ \E i \in 0..(numobs - 1) : TP[i] = 1 /\ FN[i] = 1

IsOne(q) == q.k = "num" /\ q.n = q.d
IsZero(q) == q.k = "num" /\ q.n = 0

BothClasses == Goals > 0 /\ NonGoals > 0

\* C4 as stated: with both classes present the ROC point at threshold 0 is
\* (1, 1) and the point at the last swept threshold is (0, 0).
C4_EndPoints ==
    (pc = "done" /\ BothClasses) =>
       /\ IsOne(roc[0].tpr) /\ IsOne(roc[0].fpr)
       /\ FN[0] = 0 /\ TN[0] = 0
       /\ IsZero(roc[numobs - 1].tpr) /\ IsZero(roc[numobs - 1].fpr)

\* C4 amended: with both classes present, at threshold 0 a rate is 1 exactly
\* when no record of its class has an xG that is not above 0 (FN[0] and TN[0]
\* count the records whose xG is 0.0), and at the last swept threshold
\* (numobs-1)/numobs a rate is 0 exactly when no record of its class has an
\* xG above that threshold: such records are still classified positive.
C4_EndPointsAmended ==
    (pc = "done" /\ BothClasses) =>
       /\ FN[0] = Cardinality({r \in DOMAIN shots : shots[r].Goal = 1 /\ shots[r].xG = 0})
       /\ TN[0] = Cardinality({r \in DOMAIN shots : shots[r].Goal = 0 /\ shots[r].xG = 0})
       /\ IsOne(roc[0].tpr) <=> ~ \E r \in DOMAIN shots : shots[r].Goal = 1 /\ shots[r].xG = 0
       /\ IsOne(roc[0].fpr) <=> ~ \E r \in DOMAIN shots : shots[r].Goal = 0 /\ shots[r].xG = 0
       /\ IsZero(roc[numobs - 1].tpr) <=>
             ~ \E r \in DOMAIN shots :
                  shots[r].Goal = 1 /\ shots[r].xG > Threshold(numobs - 1)
       /\ IsZero(roc[numobs - 1].fpr) <=>
             ~ \E r \in DOMAIN shots :
                  shots[r].Goal = 0 /\ shots[r].xG > Threshold(numobs - 1)

\* both classes are present, a goal's xG is above the last threshold, and the
\* last point of the curve has tpr = 1
C4_Witness ==
    /\ pc = "done"
    /\ BothClasses
    /\ \E r \in DOMAIN shots : shots[r].Goal = 1 /\ shots[r].xG > Threshold(numobs - 1)
    /\ ~ IsZero(roc[numobs - 1].tpr)

\* C5: with one class absent the rates are computed without an error: the
\* rate of the absent class is NaN at every point and the other rate is the
\* ordinary quotient.
C5_AbsentClassGivesNaN ==
    /\ err # "FloatingPointError"
    /\ (pc = "roc_loop" /\ numobs_i = numobs) => ENABLED RocPlot
    /\ pc = "done" =>
          \A i \in 0..(numobs - 1) :
             /\ Goals = 0 => /\ roc[i].tpr = NaN
                             /\ roc[i].fpr = Num(FP[i], NonGoals)
             /\ NonGoals = 0 => /\ roc[i].fpr = NaN
                                /\ roc[i].tpr = Num(TP[i], Goals)

\* the curve was plotted for a dataset without a single goal
C5_Witness ==
    /\ pc = "done"
    /\ Goals = 0
    /\ roc[0].tpr = NaN

----------------------------------------------------------------------------
(* Pseudo R-squared, scoring, fitting *)

\* C6: when the null model's log-likelihood is 0 the pseudo R-squared is not
\* computed: the script fails with an error instead of printing a number.
C6_ZeroNullLikelihoodFails ==
    (null_model.fitted /\ null_model.llf = 0) =>
       /\ err # "none"
       /\ rsquared.k = "none"
       /\ "Mcfaddens Rsquared" \notin reported

\* whether some row carries an xG written by calculate_xG
Scored == pc \in {"grid", "rsquared", "roc_init", "roc_loop", "done"}

\* C7: calculate_xG fails when len(b) is not len(model_variables) + 1; no xG
\* is ever returned from a coefficient list of another length.
C7_LengthMismatchFails ==
    (pc \notin {"apply_xG", "grid_loop"} /\ model_variables # <<>>
        /\ Len(b) # Len(model_variables) + 1) =>
       /\ err # "none"
       /\ ~ Scored

\* C8: the coefficients of a fit that did not converge are never used (for
\* scoring, pseudo R-squared or the ROC) without the non-convergence having
\* been raised or shown.
C8_NonConvergenceSurfaced ==
    (test_model.fitted /\ ~test_model.converged /\ Scored) =>
       \/ err # "none"
       \/ "ConvergenceWarning" \in reported

\* C9: every probability calculate_xG returns is strictly inside (0, 1).
C9_StrictlyInsideUnitInterval ==
    /\ Scored => \A r \in DOMAIN shots : 0 < shots[r].xG /\ shots[r].xG < 10000
    /\ grid.k = "cell" => 0 < grid.p /\ grid.p < 10000

\* C10: the formula holds every name of model_variables once, in list order,
\* separated by ' + '; the parameter at index i+1 was fitted for
\* model_variables[i]; and calculate_xG multiplies b[i+1] by the feature
\* model_variables[i], for every i and for nothing else.
C10_FeatureOrderMatches ==
    /\ pc \in {"fit_full", "apply_xG"} \cup {"grid", "rsquared", "roc_init", "roc_loop", "done"} =>
          /\ Len(model) = 2 * Len(model_variables) - 1
          /\ \A k \in 1..Len(model_variables) : model[2 * k - 1] = model_variables[k]
          /\ \A k \in 1..(Len(model_variables) - 1) : model[2 * k] = " + "
    /\ pc \in {"apply_xG", "grid", "rsquared", "roc_init", "roc_loop", "done"} =>
          /\ test_model.names[1] = "Intercept"
          /\ Len(b) = Len(test_model.names)
          /\ \A r \in DOMAIN shots :
                LET t == calculate_xG(b, model_variables, shots[r]).terms
                IN  /\ Len(t) = Len(model_variables)
                    /\ \A k \in 1..Len(t) :
                          \* t[k][1] is the script's index into b
                          /\ t[k][1] = k
                          /\ t[k][2] = model_variables[k]
                          /\ test_model.names[t[k][1] + 1] = t[k][2]

\* the full model was fitted and every shot was scored with its coefficients
C10_Witness ==
    /\ pc = "grid"
    /\ Len(b) = 8
    /\ \A r \in DOMAIN shots : "xG" \in DOMAIN shots[r]

----------------------------------------------------------------------------
(* The grids of pitches *)

\* the removal loop of one of the two figures has ended
AfterRemoval == pc \in {"title112", "colorbar173"}

\* C11: with n <= 16 players, player k is plotted on pitch k - 1 (row-major,
\* one pitch per player), and after the removal loop the pitches still in the
\* figure are exactly the n pitches a player was plotted on.
C11_ExactlyUsedPitchesRemain ==
    (AfterRemoval /\ Len(names) <= NRows * NCols) =>
        \A k \in DOMAIN axs :
            /\ axs[k].plotted <=> k < Len(names)
            /\ axs[k].plotted => axs[k].text = names[k + 1]
            /\ axs[k].removed <=> ~axs[k].plotted

----------------------------------------------------------------------------
(* Coefficients between fitting and scoring *)

\* from after b = test_model.params (line 380) to the plot of the ROC curve
FittedPhase == pc \in {"apply_xG", "grid", "rsquared", "roc_init", "roc_loop"}

\* after shots.assign(xG=xG) of line 392
XGAssigned == pc \in {"grid", "rsquared", "roc_init", "roc_loop", "done"}

\* the xG of lines 216-231, from the hand-set b = [3, -3]
HandSetXG(r) == Logistic(300 + Mul(-300, r.Angle))

\* C12: from b = test_model.params of the multi-feature fit to the end of the
\* ROC sweep no step changes b or model_variables, and from line 392 on b is
\* the params of the fitted model and the xG column of every row is
\* calculate_xG of that row with b (nothing of the hand-set column is left).
C12_CoefficientsFrozen ==
    /\ [][FittedPhase => (b' = b /\ model_variables' = model_variables)]_vars
    /\ [](XGAssigned =>
            /\ b = test_model.params
            /\ model_variables = ModelVariables
            /\ \A r \in DOMAIN shots :
                  shots[r].xG = calculate_xG(b, model_variables, shots[r]).xG)

\* the ROC sweep has ended on a row whose fitted xG is not the hand-set one
C12_Witness ==
    /\ pc = "done"
    /\ \E r \in DOMAIN shots : shots[r].xG # HandSetXG(shots[r])

----------------------------------------------------------------------------
(* Monotone counters *)

\* the counters of threshold j against those of an earlier threshold i
NoMorePositives(i, j) ==
    /\ TP[j] <= TP[i] /\ FP[j] <= FP[i]
    /\ FN[j] >= FN[i] /\ TN[j] >= TN[i]

\* C13: for threshold indices i < j whose passes over the shots are complete,
\* TP[j] <= TP[i] and FP[j] <= FP[i] (and FN[j] >= FN[i], TN[j] >= TN[i]):
\* any two indices once the sweep has ended, and during the sweep the
\* threshold just completed against every earlier one.
C13_PositivesMonotone ==
    /\ pc = "done" =>
          \A i \in 0..(numobs - 1) : \A j \in (i + 1)..(numobs - 1) : NoMorePositives(i, j)
    /\ (pc = "roc_loop" /\ row_j = 0 /\ numobs_i >= 2) =>
          \A i \in 0..(numobs_i - 2) : NoMorePositives(i, numobs_i - 1)

\* a finished sweep in which both positive counts strictly fall somewhere
C13_Witness ==
    /\ pc = "done"
    /\ \E i \in 0..(numobs - 2) : TP[i + 1] < TP[i]
    /\ \E i \in 0..(numobs - 2) : FP[i + 1] < FP[i]

====
